---- MODULE Spec2Model ----
(***************************************************************************)
(* State-machine model of the job task-execution core:                     *)
(*   - pipeline.BridgeTask.Run        (core/services/job/fetchers.go)      *)
(*   - job.Fetchers.UnmarshalJSON, job.UnmarshalFetcherJSON,               *)
(*     job.BaseFetcher.SetNotifiee    (core/services/job/fetchers.go)      *)
(*   - web.JobSpecsController         (Create, CreateV2, Destroy,          *)
(*     DestroyV2 and their helpers)                                        *)
(* Errors are modelled as the chain pkg/errors builds: a sequence of       *)
(* strings, outermost wrap message first, root cause last; <<>> is nil.    *)
(***************************************************************************)
EXTENDS Integers, Sequences, FiniteSets, TLC

\* ------------------------------------------------------------------ bounds
MaxRuns == 3
MaxInputs == 2

\* ------------------------------------------------------------------ errors
NilErr == <<>>

\* errors.Wrapf(err, msg): nil stays nil, otherwise msg is put in front.
Wrapf(err, msg) == IF err = NilErr THEN NilErr ELSE <<msg>> \o err

\* errors.Cause(err): the innermost error of the chain.
Cause(err) == IF err = NilErr THEN NilErr ELSE <<err[Len(err)]>>

ErrWrongInputCardinality == <<"wrong number of task inputs">>
ErrorNotFound == <<"record not found">>
ErrStore == <<"store failure">>

\* ------------------------------------------------------------- BridgeTask
VARIABLES
    task,        \* the BridgeTask: [Type, Name, RequestData]
    decoded,     \* the task's configuration as decode left it
    bridges,     \* the bridge registry behind t.orm: a set of [name, url]
    idCounter,   \* how many ids models.NewID has handed out
    httpLog,     \* every request the HTTP stage received, in order
    lookupLog,   \* every name FindBridge was asked for, in order
    last,        \* what the last handler invocation saw and returned
    fetchers,    \* the receiver *f of Fetchers.UnmarshalJSON
    phase,       \* "new", "decoded", "failed" or "notified"
    owner,       \* the notification sink of the collection's owner
    cfg,         \* the store's Config: [Dev, FeatureFluxMonitor, FeatureOffchainReporting]
    jobs,        \* V1 job specs in the store: a set of [id, archived]
    jobsV2,      \* V2 job ids in the store
    created,     \* how many V1 ids NewJobFromRequest has assigned
    createdV2,   \* how many V2 ids the store has assigned
    notified     \* the V1 job ids external initiators were notified of, in order

bridgeOnly == <<task, decoded, bridges, idCounter, httpLog, lookupLog>>
decodeOnly == <<fetchers, phase, owner>>
webOnly == <<cfg, jobs, jobsV2, created, createdV2, notified>>
vars == <<bridgeOnly, decodeOnly, webOnly, last>>

NilValue == "nil"
TaskTypeBridge == "bridge"

\* HttpRequestData is a Go map: nil or a set of <<key, value>> with unique keys.
NilMap == [nil |-> TRUE, kv |-> {}]
EmptyMap == [nil |-> FALSE, kv |-> {}]
Lit(n) == [kind |-> "literal", n |-> n]
HasKey(m, k) == \E p \in m.kv : p[1] = k
Get(m, k) == (CHOOSE p \in m.kv : p[1] = k)[2]
\* m[k] = v on a non-nil map
Put(m, k, v) == [nil |-> FALSE, kv |-> {p \in m.kv : p[1] # k} \cup {<<k, v>>}]

\* models.NewID(): the n-th identifier generated by the process (a fresh UUID).
NewID(n) == [kind |-> "uuid", n |-> n]

BridgeNames == {"coinbase", "kraken"}
BridgeURL(name) == "http://" \o name \o ".adapter"
DeclaredRequestData ==
    {NilMap, EmptyMap,
     [nil |-> FALSE, kv |-> {<<"id", Lit(1)>>}],
     [nil |-> FALSE, kv |-> {<<"pair", Lit(2)>>}],
     [nil |-> FALSE, kv |-> {<<"id", Lit(1)>>, <<"pair", Lit(2)>>}]}

\* A Result handed to Run as an input (an upstream stage's outcome).
UpstreamResults ==
    {[Value |-> "1", Error |-> NilErr], [Value |-> NilValue, Error |-> <<"upstream failed">>]}
InputLists == UNION {[1..n -> UpstreamResults] : n \in 0..MaxInputs}

\* t.orm.FindBridge(name): the registry's answer; storeOK is whether the
\* backing store answered at all.
FindBridge(reg, name, storeOK) ==
    IF ~storeOK THEN [url |-> "", err |-> ErrStore]
    ELSE IF \E b \in reg : b.name = name
         THEN [url |-> (CHOOSE b \in reg : b.name = name).url, err |-> NilErr]
         ELSE [url |-> "", err |-> ErrorNotFound]

getBridgeURLFromName(t, reg, storeOK) ==
    LET bridge == FindBridge(reg, t.Name, storeOK)
    IN  IF bridge.err # NilErr THEN [url |-> "", err |-> bridge.err]
        ELSE [url |-> bridge.url, err |-> NilErr]

\* What the HTTP stage can answer to a request: raw bytes or an error.
HTTPOutcomes ==
    {[Value |-> "body", Error |-> NilErr],
     [Value |-> NilValue, Error |-> <<"http: timeout">>],
     [Value |-> NilValue, Error |-> <<"http: status 500">>]}

\* (&HTTPTask{...}).Run(inputs): answers with the outcome of the network call.
HTTPTaskRun(req, inputs, outcome) == outcome

\* A variant of Run that keeps an id the request data already holds.
BridgeTaskRunKeepsID(t, inputs, reg, storeOK, outcome, n) ==
    IF Len(inputs) > 0
    THEN [result |-> [Value |-> NilValue,
                      Error |-> Wrapf(ErrWrongInputCardinality, "BridgeTask requires 0 inputs")],
          task |-> t, lookups |-> <<>>, requests |-> <<>>, ids |-> 0]
    ELSE LET lk == getBridgeURLFromName(t, reg, storeOK) IN
         IF lk.err # NilErr
         THEN [result |-> [Value |-> NilValue, Error |-> lk.err],
               task |-> t, lookups |-> <<t.Name>>, requests |-> <<>>, ids |-> 0]
         ELSE LET rd0 == IF t.RequestData.nil THEN EmptyMap ELSE t.RequestData
                  rd  == IF HasKey(rd0, "id") THEN rd0 ELSE Put(rd0, "id", NewID(n + 1))
                  req == [URL |-> lk.url, Method |-> "POST", RequestData |-> rd,
                          AllowUnrestrictedNetworkAccess |-> TRUE]
              IN  [result |-> HTTPTaskRun(req, inputs, outcome),
                   task |-> [t EXCEPT !.RequestData = rd],
                   lookups |-> <<t.Name>>, requests |-> <<req>>, ids |-> 1]

\* A variant of Run that looks the bridge up before it checks its inputs.
BridgeTaskRunLooksUpFirst(t, inputs, reg, storeOK, outcome, n) ==
    LET lk == getBridgeURLFromName(t, reg, storeOK) IN
    IF Len(inputs) > 0
    THEN [result |-> [Value |-> NilValue,
                      Error |-> Wrapf(ErrWrongInputCardinality, "BridgeTask requires 0 inputs")],
          task |-> t, lookups |-> <<t.Name>>, requests |-> <<>>, ids |-> 0]
    ELSE IF lk.err # NilErr
         THEN [result |-> [Value |-> NilValue, Error |-> lk.err],
               task |-> t, lookups |-> <<t.Name>>, requests |-> <<>>, ids |-> 0]
         ELSE LET rd0 == IF t.RequestData.nil THEN EmptyMap ELSE t.RequestData
                  rd  == Put(rd0, "id", NewID(n + 1))
                  req == [URL |-> lk.url, Method |-> "POST", RequestData |-> rd,
                          AllowUnrestrictedNetworkAccess |-> TRUE]
              IN  [result |-> HTTPTaskRun(req, inputs, outcome),
                   task |-> [t EXCEPT !.RequestData = rd],
                   lookups |-> <<t.Name>>, requests |-> <<req>>, ids |-> 1]

\* A variant of Run that retries the HTTP stage once when it fails.
BridgeTaskRunRetries(t, inputs, reg, storeOK, outcome, n) ==
    IF Len(inputs) > 0
    THEN [result |-> [Value |-> NilValue,
                      Error |-> Wrapf(ErrWrongInputCardinality, "BridgeTask requires 0 inputs")],
          task |-> t, lookups |-> <<>>, requests |-> <<>>, ids |-> 0]
    ELSE LET lk == getBridgeURLFromName(t, reg, storeOK) IN
         IF lk.err # NilErr
         THEN [result |-> [Value |-> NilValue, Error |-> lk.err],
               task |-> t, lookups |-> <<t.Name>>, requests |-> <<>>, ids |-> 0]
         ELSE LET rd0 == IF t.RequestData.nil THEN EmptyMap ELSE t.RequestData
                  rd  == Put(rd0, "id", NewID(n + 1))
                  req == [URL |-> lk.url, Method |-> "POST", RequestData |-> rd,
                          AllowUnrestrictedNetworkAccess |-> TRUE]
                  res == HTTPTaskRun(req, inputs, outcome)
              IN  [result |-> res,
                   task |-> [t EXCEPT !.RequestData = rd],
                   lookups |-> <<t.Name>>,
                   requests |-> IF res.Error # NilErr THEN <<req, req>> ELSE <<req>>,
                   ids |-> 1]

\* (t *BridgeTask) Run(inputs): the Result, the task as Run leaves it, the
\* registry lookups and HTTP requests it made, and the ids it drew, given
\* the registry, whether the store answers, the network's outcome and the
\* number of ids generated so far.
BridgeTaskRun(t, inputs, reg, storeOK, outcome, n) ==
    IF Len(inputs) > 0
    THEN [result |-> [Value |-> NilValue,
                      Error |-> Wrapf(ErrWrongInputCardinality, "BridgeTask requires 0 inputs")],
          task |-> t, lookups |-> <<>>, requests |-> <<>>, ids |-> 0]
    ELSE LET lk == getBridgeURLFromName(t, reg, storeOK) IN
         IF lk.err # NilErr
         THEN [result |-> [Value |-> NilValue, Error |-> lk.err],
               task |-> t, lookups |-> <<t.Name>>, requests |-> <<>>, ids |-> 0]
         ELSE LET rd0 == IF t.RequestData.nil THEN EmptyMap ELSE t.RequestData
                  rd  == Put(rd0, "id", NewID(n + 1))
                  req == [URL |-> lk.url, Method |-> "POST", RequestData |-> rd,
                          AllowUnrestrictedNetworkAccess |-> TRUE]
              IN  [result |-> HTTPTaskRun(req, inputs, outcome),
                   task |-> [t EXCEPT !.RequestData = rd],
                   lookups |-> <<t.Name>>, requests |-> <<req>>, ids |-> 1]

NoCall == [op |-> "none"]
NoNotifiee == "none"
NoFeatures == [Dev |-> FALSE, FeatureFluxMonitor |-> FALSE, FeatureOffchainReporting |-> FALSE]

\* A decoded BridgeTask with its collaborators injected; nothing else in use.
BridgeInit ==
    /\ task \in [Type : {TaskTypeBridge}, Name : BridgeNames, RequestData : DeclaredRequestData]
    /\ decoded = task
    /\ bridges = {[name |-> "coinbase", url |-> BridgeURL("coinbase")]}
    /\ idCounter = 0
    /\ httpLog = <<>>
    /\ lookupLog = <<>>
    /\ last = NoCall
    /\ fetchers = <<>> /\ phase = "new" /\ owner = NoNotifiee
    /\ cfg = NoFeatures
    /\ jobs = {} /\ jobsV2 = {} /\ created = 0 /\ createdV2 = 0 /\ notified = <<>>

Run ==
    /\ Len(lookupLog) < MaxRuns
    /\ \E inputs \in InputLists, storeOK \in BOOLEAN, outcome \in HTTPOutcomes :
         LET r == BridgeTaskRun(task, inputs, bridges, storeOK, outcome, idCounter) IN
         /\ task' = r.task
         /\ idCounter' = idCounter + r.ids
         /\ httpLog' = httpLog \o r.requests
         /\ lookupLog' = lookupLog \o r.lookups
         /\ last' = [op |-> "Run", inputs |-> inputs, storeOK |-> storeOK,
                     outcome |-> outcome, result |-> r.result,
                     taskBefore |-> task, lookupsBefore |-> Len(lookupLog),
                     requestsBefore |-> Len(httpLog)]
    /\ UNCHANGED <<decoded, bridges>>
    /\ UNCHANGED <<decodeOnly, webOnly>>

BridgeNext == Run

\* The lookups and requests the last Run made.
LastLookups == SubSeq(lookupLog, last.lookupsBefore + 1, Len(lookupLog))
LastRequests == SubSeq(httpLog, last.requestsBefore + 1, Len(httpLog))

\* C1: Run with one or more inputs returns the wrong-input-cardinality error
\* (wrapped with "BridgeTask requires 0 inputs") and neither looks the bridge
\* up, nor changes the request data, nor invokes the HTTP stage; with zero
\* inputs it proceeds to the bridge lookup by the task's name.
InvC1 ==
    last.op = "Run" =>
        IF Len(last.inputs) > 0
        THEN /\ last.result.Error # NilErr
             /\ Cause(last.result.Error) = ErrWrongInputCardinality
             /\ LastLookups = <<>>
             /\ LastRequests = <<>>
             /\ task = last.taskBefore
        ELSE LastLookups = <<last.taskBefore.Name>>
WitC1 == last.op = "Run" /\ Len(last.inputs) > 0 /\ Len(lookupLog) > 0

\* C2: every request that reaches the HTTP stage carries the key "id", holding
\* an identifier generated for that invocation, whatever the declared request
\* data was; and no two requests of the task carry the same id.
InvC2 ==
    /\ \A i \in 1..Len(httpLog) :
          /\ HasKey(httpLog[i].RequestData, "id")
          /\ Get(httpLog[i].RequestData, "id").kind = "uuid"
    /\ \A i, j \in 1..Len(httpLog) :
          i < j => Get(httpLog[i].RequestData, "id") # Get(httpLog[j].RequestData, "id")
WitC2 == Len(httpLog) >= 2 /\ HasKey(decoded.RequestData, "id")

\* C3: Run leaves the task's configuration (type, Name, RequestData) as decode
\* left it, for any sequence of Run invocations.
InvC3 == task = decoded

\* C9: with zero inputs the Result is decided by the two collaborators, with no
\* retry: a failed lookup's error is returned as it is and the HTTP stage is
\* not invoked; otherwise the HTTP stage is invoked exactly once (POST, the
\* resolved URL, unrestricted network access) and its Result is returned
\* unchanged, value or error.
InvC9 ==
    (last.op = "Run" /\ Len(last.inputs) = 0) =>
        LET bridge == FindBridge(bridges, last.taskBefore.Name, last.storeOK) IN
        IF bridge.err # NilErr
        THEN /\ last.result.Error = bridge.err
             /\ LastRequests = <<>>
        ELSE /\ Len(LastRequests) = 1
             /\ LastRequests[1].Method = "POST"
             /\ LastRequests[1].URL = bridge.url
             /\ LastRequests[1].AllowUnrestrictedNetworkAccess
             /\ last.result = last.outcome
WitC9 ==
    /\ last.op = "Run" /\ Len(last.inputs) = 0
    /\ Len(LastRequests) = 1 /\ last.result.Error # NilErr
    /\ Len(httpLog) >= 2

\* ------------------------------------------------- Fetchers (polymorphic decode)

MaxDocs == 2
MaxTransformers == 1

FetcherTypeBridge == "bridge"
FetcherTypeHttp == "http"
FetcherTypeMedian == "median"
Recognized == {FetcherTypeBridge, FetcherTypeHttp, FetcherTypeMedian}

Notifiees == {"sinkA", "sinkB"}

\* The "type" member of a stage document: a JSON string, a JSON number, or absent.
TypeMembers ==
    {[kind |-> "string", val |-> v] :
        v \in {FetcherTypeBridge, FetcherTypeHttp, FetcherTypeMedian, "nonsense", ""}}
    \cup {[kind |-> "absent", val |-> ""], [kind |-> "number", val |-> "7"]}

TransformPipelines == UNION {[1..n -> {"multiply"}] : n \in 0..MaxTransformers}

\* A stage document: syntactically a JSON object or not; its "type" member;
\* whether its other members fit the variant's structure; its transformPipeline.
\* (Members other than "type" are only read for a recognized type.)
StageDocs ==
    {d \in [json : {"object", "malformed"}, type : TypeMembers,
            fields : {"ok", "mismatch"}, transformPipeline : TransformPipelines] :
        /\ d.json = "malformed" => d.type = [kind |-> "absent", val |-> ""]
        /\ (d.json = "malformed" \/ d.type.val \notin Recognized) =>
              (d.fields = "ok" /\ d.transformPipeline = <<>>)
        /\ d.fields = "mismatch" => d.transformPipeline = <<>>}

\* The bytes handed to Fetchers.UnmarshalJSON: a JSON array of stage documents,
\* or something that is not a JSON array.
SpecDocs ==
    {[json |-> "array", elems |-> e] : e \in UNION {[1..n -> StageDocs] : n \in 0..MaxDocs}}
    \cup {[json |-> "malformed", elems |-> <<>>]}

\* The document's text, as an error message would quote it.
RawType(t) ==
    IF t.kind = "absent" THEN ""
    ELSE IF t.kind = "number" THEN "\"type\":" \o t.val
    ELSE "\"type\":\"" \o t.val \o "\""
Raw(doc) ==
    IF doc.json = "malformed" THEN "{"
    ELSE "{" \o RawType(doc.type)
             \o (IF doc.fields = "mismatch" THEN ",\"transformPipeline\":0" ELSE "")
             \o (IF Len(doc.transformPipeline) > 0 THEN ",\"transformPipeline\":[..]" ELSE "")
             \o "}"

NilFetcher == [variant |-> "nil", Transformers |-> <<>>, notifiee |-> NoNotifiee, sets |-> 0]

\* withStack(&err), deferred: a non-nil error gets a stack annotation, its
\* cause and message kept.
withStack(err) == IF err = NilErr THEN NilErr ELSE <<"(stack)">> \o err

\* json.Unmarshal(bs, &header) with header.Type a string.
UnmarshalHeader(doc) ==
    IF doc.json # "object" THEN [Type |-> "", err |-> <<"json: syntax error">>]
    ELSE IF doc.type.kind = "number"
         THEN [Type |-> "", err |-> <<"json: cannot unmarshal number into Go struct field .type">>]
         ELSE [Type |-> doc.type.val, err |-> NilErr]

\* Transformers decoded from "transformPipeline".
UnmarshalTransformers(tp) ==
    [i \in 1..Len(tp) |-> [kind |-> tp[i], notifiee |-> NoNotifiee, sets |-> 0]]

\* json.Unmarshal(bs, &variant{}) of the whole document into a variant.
UnmarshalVariant(doc, variant) ==
    IF doc.fields # "ok"
    THEN [fetcher |-> NilFetcher, err |-> <<"json: cannot unmarshal into Go struct field">>]
    ELSE [fetcher |-> [variant |-> variant,
                       Transformers |-> UnmarshalTransformers(doc.transformPipeline),
                       notifiee |-> NoNotifiee, sets |-> 0],
          err |-> NilErr]

UnmarshalFetcherJSONBody(doc) ==
    LET header == UnmarshalHeader(doc) IN
    IF header.err # NilErr THEN [fetcher |-> NilFetcher, err |-> header.err]
    ELSE IF header.Type = FetcherTypeBridge THEN UnmarshalVariant(doc, "BridgeFetcher")
    ELSE IF header.Type = FetcherTypeHttp THEN UnmarshalVariant(doc, "HttpFetcher")
    ELSE IF header.Type = FetcherTypeMedian THEN UnmarshalVariant(doc, "MedianFetcher")
    ELSE [fetcher |-> NilFetcher, err |-> <<"unknown fetcher type">>]

UnmarshalFetcherJSON(doc) ==
    LET r == UnmarshalFetcherJSONBody(doc) IN
    [fetcher |-> r.fetcher, err |-> withStack(r.err)]

\* The loop of Fetchers.UnmarshalJSON from element i on: each decoded fetcher
\* is appended to the receiver; the first failure returns.
RECURSIVE DecodeFrom(_, _, _)
DecodeFrom(f, elems, i) ==
    IF i > Len(elems) THEN [f |-> f, err |-> NilErr]
    ELSE LET r == UnmarshalFetcherJSON(elems[i]) IN
         IF r.err # NilErr THEN [f |-> f, err |-> r.err]
         ELSE DecodeFrom(Append(f, r.fetcher), elems, i + 1)

FetchersUnmarshalJSON(f, bs) ==
    IF bs.json # "array" THEN [f |-> f, err |-> withStack(<<"json: syntax error">>)]
    ELSE LET r == DecodeFrom(f, bs.elems, 1) IN [f |-> r.f, err |-> withStack(r.err)]

\* transformer.SetNotifiee(n)
TransformerSetNotifiee(tr, n) == [tr EXCEPT !.notifiee = n, !.sets = @ + 1]

\* A variant of SetNotifiee that forgets the fetcher's transformers.
SetNotifieeSelfOnly(fetcher, n) ==
    [fetcher EXCEPT !.notifiee = n, !.sets = @ + 1]

\* (f *BaseFetcher) SetNotifiee(n)
SetNotifiee(fetcher, n) ==
    [fetcher EXCEPT !.notifiee = n, !.sets = @ + 1,
                    !.Transformers = [i \in 1..Len(@) |-> TransformerSetNotifiee(@[i], n)]]

\* An empty Fetchers collection about to be decoded; nothing else in use.
DecodeInit ==
    /\ fetchers = <<>>
    /\ phase = "new"
    /\ owner \in Notifiees
    /\ last = NoCall
    /\ task = [Type |-> TaskTypeBridge, Name |-> "coinbase", RequestData |-> NilMap]
    /\ decoded = task /\ bridges = {} /\ idCounter = 0
    /\ httpLog = <<>> /\ lookupLog = <<>>
    /\ cfg = NoFeatures
    /\ jobs = {} /\ jobsV2 = {} /\ created = 0 /\ createdV2 = 0 /\ notified = <<>>

\* json decoding of the owning spec calls (*Fetchers).UnmarshalJSON once.
UnmarshalJSON ==
    /\ phase = "new"
    /\ \E bs \in SpecDocs :
         LET r == FetchersUnmarshalJSON(fetchers, bs) IN
         /\ fetchers' = r.f
         /\ phase' = IF r.err = NilErr THEN "decoded" ELSE "failed"
         /\ last' = [op |-> "UnmarshalJSON", bs |-> bs, err |-> r.err,
                     fetchersBefore |-> fetchers]
    /\ UNCHANGED <<owner, bridgeOnly, webOnly>>

\* A single stage document decoded on its own.
DecodeOne ==
    /\ \E doc \in StageDocs :
         LET r == UnmarshalFetcherJSON(doc) IN
         last' = [op |-> "UnmarshalFetcherJSON", doc |-> doc, err |-> r.err,
                  fetcher |-> r.fetcher]
    /\ UNCHANGED <<fetchers, phase, owner, bridgeOnly, webOnly>>

\* The collection's owner hands its sink to every decoded fetcher.
PropagateNotifiee ==
    /\ phase = "decoded"
    /\ fetchers' = [i \in 1..Len(fetchers) |-> SetNotifiee(fetchers[i], owner)]
    /\ phase' = "notified"
    /\ last' = [op |-> "SetNotifiee"]
    /\ UNCHANGED <<owner, bridgeOnly, webOnly>>

DecodeNext == UnmarshalJSON \/ DecodeOne \/ PropagateNotifiee

VariantOf(type) ==
    IF type = FetcherTypeBridge THEN "BridgeFetcher"
    ELSE IF type = FetcherTypeHttp THEN "HttpFetcher" ELSE "MedianFetcher"
Mentions(err, text) == \E k \in 1..Len(err) : err[k] = text

\* C4: when decoding any element of the stage array fails, UnmarshalJSON
\* returns an error and the receiver is as it was before the call; when every
\* element decodes, the receiver holds one fetcher per document, in order.
InvC4 ==
    last.op = "UnmarshalJSON" =>
        IF \E i \in 1..Len(last.bs.elems) : UnmarshalFetcherJSON(last.bs.elems[i]).err # NilErr
        THEN last.err # NilErr /\ fetchers = last.fetchersBefore
        ELSE last.bs.json = "array" =>
               /\ last.err = NilErr
               /\ Len(fetchers) = Len(last.fetchersBefore) + Len(last.bs.elems)
               /\ \A i \in 1..Len(last.bs.elems) :
                     fetchers[Len(last.fetchersBefore) + i].variant
                         = VariantOf(last.bs.elems[i].type.val)

\* C5: a well-formed document whose type is not bridge, http or median (also
\* missing or empty) yields an "unknown type" error that quotes the document,
\* and no fetcher; a recognized type yields the matching variant.
InvC5 ==
    (/\ last.op = "UnmarshalFetcherJSON"
     /\ last.doc.json = "object" /\ last.doc.fields = "ok"
     /\ last.doc.type.kind # "number") =>
        IF last.doc.type.val \in Recognized
        THEN last.err = NilErr /\ last.fetcher.variant = VariantOf(last.doc.type.val)
        ELSE /\ Cause(last.err) = <<"unknown fetcher type">>
             /\ Mentions(last.err, Raw(last.doc))
             /\ last.fetcher = NilFetcher

MaxJobs == 2

StatusOK == 200
StatusNoContent == 204
StatusBadRequest == 400
StatusNotFound == 404
StatusUnprocessableEntity == 422
StatusInternalServerError == 500
StatusNotImplemented == 501

InitiatorFluxMonitor == "fluxmonitor"
OffchainReportingJobType == "offchainreporting"

\* The n-th id models.NewID hands to a V1 job spec, as it appears in a URL.
JobIDText(n) == "job-" \o ToString(n)

\* A POST /specs body: whether it binds to a JobSpecRequest, its initiators'
\* types, and whether services.ValidateJob accepts the resulting job.
CreateRequests ==
    [bind : {"ok", "malformed"},
     initiators : {<<"web">>, <<InitiatorFluxMonitor>>, <<"web", InitiatorFluxMonitor>>},
     valid : BOOLEAN]

\* A POST /specs/v2 body: whether it can be read, whether it is TOML that
\* decodes into an OracleSpec.
CreateV2Requests == [read : {"ok", "error"}, toml : {"ok", "malformed"}]

\* How the store behaves during one call: whether it answers, and whether the
\* application wraps the store's error on the way up.
StoreModes == [ok : BOOLEAN, wrap : BOOLEAN]
StoreFailures == {m \in StoreModes : ~m.wrap}
StoreErr(base, mode) == IF mode.wrap THEN Wrapf(base, "store") ELSE base

\* js.InitiatorsFor(type): the job's initiators of that type.
InitiatorsFor(js, type) == SelectSeq(js.Initiators, LAMBDA t : t = type)

\* models.NewJobFromRequest(jsr): a job spec with a new id and the request's content.
NewJobFromRequest(jsr, n) ==
    [ID |-> JobIDText(n + 1), Initiators |-> jsr.initiators, valid |-> jsr.valid]

\* services.ValidateJob(js, store)
ValidateJob(js) == IF js.valid THEN NilErr ELSE <<"job spec is invalid">>

\* (spec OracleSpec) JobType()
JobType(spec) == OffchainReportingJobType

requireImplemented(js, c) ==
    IF ~c.Dev /\ ~c.FeatureFluxMonitor /\ Len(InitiatorsFor(js, InitiatorFluxMonitor)) > 0
    THEN <<"The Flux Monitor feature is disabled by configuration">>
    ELSE NilErr

requireImplementedV2(js, c) ==
    IF JobType(js) = OffchainReportingJobType /\ ~c.Dev /\ ~c.FeatureOffchainReporting
    THEN <<"The Offchain Reporting feature is disabled by configuration">>
    ELSE NilErr

NoJob == [ID |-> "", Initiators |-> <<>>, valid |-> FALSE]

\* A variant of getAndCheckJobSpec that validates before it checks the gate.
getAndCheckJobSpecValidatesFirst(req, c, n) ==
    IF req.bind # "ok"
    THEN [js |-> NoJob, httpStatus |-> StatusBadRequest, err |-> <<"invalid request body">>,
          trace |-> <<"ShouldBindJSON">>]
    ELSE LET js == NewJobFromRequest(req, n) IN
         IF ValidateJob(js) # NilErr
         THEN [js |-> NoJob, httpStatus |-> StatusBadRequest, err |-> ValidateJob(js),
               trace |-> <<"ShouldBindJSON", "ValidateJob">>]
         ELSE IF requireImplemented(js, c) # NilErr
         THEN [js |-> NoJob, httpStatus |-> StatusNotImplemented,
               err |-> requireImplemented(js, c),
               trace |-> <<"ShouldBindJSON", "ValidateJob", "requireImplemented">>]
         ELSE [js |-> js, httpStatus |-> 0, err |-> NilErr,
               trace |-> <<"ShouldBindJSON", "ValidateJob", "requireImplemented">>]

\* getAndCheckJobSpec(c): the job, the status to report on error, the error,
\* and the calls made, in order.
getAndCheckJobSpec(req, c, n) ==
    IF req.bind # "ok"
    THEN [js |-> NoJob, httpStatus |-> StatusBadRequest, err |-> <<"invalid request body">>,
          trace |-> <<"ShouldBindJSON">>]
    ELSE LET js == NewJobFromRequest(req, n) IN
         IF requireImplemented(js, c) # NilErr
         THEN [js |-> NoJob, httpStatus |-> StatusNotImplemented,
               err |-> requireImplemented(js, c),
               trace |-> <<"ShouldBindJSON", "requireImplemented">>]
         ELSE IF ValidateJob(js) # NilErr
         THEN [js |-> NoJob, httpStatus |-> StatusBadRequest, err |-> ValidateJob(js),
               trace |-> <<"ShouldBindJSON", "requireImplemented", "ValidateJob">>]
         ELSE [js |-> js, httpStatus |-> 0, err |-> NilErr,
               trace |-> <<"ShouldBindJSON", "requireImplemented", "ValidateJob">>]

NoSpec == [kind |-> "nil"]

getAndCheckJobSpecV2(req, c) ==
    IF req.read # "ok"
    THEN [js |-> NoSpec, httpStatus |-> StatusInternalServerError,
          err |-> <<"read error">>, trace |-> <<"ReadAll">>]
    ELSE IF req.toml # "ok"
    THEN [js |-> NoSpec, httpStatus |-> StatusBadRequest,
          err |-> <<"toml: syntax error">>, trace |-> <<"ReadAll", "toml.Unmarshal">>]
    ELSE LET spec == [kind |-> "OracleSpec"] IN
         IF requireImplementedV2(spec, c) # NilErr
         THEN [js |-> NoSpec, httpStatus |-> StatusNotImplemented,
               err |-> requireImplementedV2(spec, c),
               trace |-> <<"ReadAll", "toml.Unmarshal", "requireImplementedV2">>]
         ELSE [js |-> spec, httpStatus |-> 0, err |-> NilErr,
               trace |-> <<"ReadAll", "toml.Unmarshal", "requireImplementedV2">>]

\* NotifyExternalInitiator(js, store)
NotifyExternalInitiator(js, mode) == IF mode.ok THEN NilErr ELSE StoreErr(ErrStore, mode)

\* jsc.App.AddJob(js)
AddJob(js, mode) == IF mode.ok THEN NilErr ELSE StoreErr(ErrStore, mode)

\* jsc.App.AddJobV2(js): the id the store assigns, or an error.
AddJobV2(js, mode, n) ==
    IF mode.ok THEN [jobID |-> n + 1, err |-> NilErr]
    ELSE [jobID |-> 0, err |-> StoreErr(ErrStore, mode)]

\* Create(c): the responses written, the calls made, and the job notified of
\* and added, if any.
CreateHandler(req, c, n, notifyMode, addMode) ==
    LET g == getAndCheckJobSpec(req, c, n) IN
    IF g.err # NilErr
    THEN [responses |-> <<g.httpStatus>>, trace |-> g.trace, notify |-> <<>>, add |-> {}]
    ELSE IF NotifyExternalInitiator(g.js, notifyMode) # NilErr
    THEN [responses |-> <<StatusInternalServerError>>,
          trace |-> Append(g.trace, "NotifyExternalInitiator"), notify |-> <<>>, add |-> {}]
    ELSE IF AddJob(g.js, addMode) # NilErr
    THEN [responses |-> <<StatusInternalServerError>>,
          trace |-> g.trace \o <<"NotifyExternalInitiator", "AddJob">>,
          notify |-> <<g.js.ID>>, add |-> {}]
    ELSE [responses |-> <<StatusOK>>,
          trace |-> g.trace \o <<"NotifyExternalInitiator", "AddJob">>,
          notify |-> <<g.js.ID>>, add |-> {[id |-> g.js.ID, archived |-> FALSE]}]

CreateV2Handler(req, c, n, addMode) ==
    LET g == getAndCheckJobSpecV2(req, c) IN
    IF g.err # NilErr
    THEN [responses |-> <<g.httpStatus>>, trace |-> g.trace, add |-> {}]
    ELSE LET a == AddJobV2(g.js, addMode, n) IN
         IF a.err # NilErr
         THEN [responses |-> <<StatusInternalServerError>>,
               trace |-> Append(g.trace, "AddJobV2"), add |-> {}]
         ELSE [responses |-> <<StatusOK>>,
               trace |-> Append(g.trace, "AddJobV2"), add |-> {a.jobID}]

\* ----- deletion
Digits == {"0", "1", "2", "3", "4", "5", "6", "7", "8", "9"}
DigitValue(c) == CHOOSE d \in 0..9 : ToString(d) = c
RECURSIVE Decimal(_)
Decimal(ds) == IF ds = <<>> THEN 0
               ELSE 10 * Decimal(SubSeq(ds, 1, Len(ds) - 1)) + DigitValue(ds[Len(ds)])

\* strconv.Atoi(s) on a string given as its characters: an optional sign, then
\* one or more decimal digits.
Atoi(s) ==
    LET signed == Len(s) > 0 /\ s[1] \in {"+", "-"}
        ds == IF signed THEN Tail(s) ELSE s
    IN  IF Len(ds) = 0 \/ \E i \in 1..Len(ds) : ds[i] \notin Digits
        THEN [n |-> 0, err |-> <<"strconv.Atoi: invalid syntax">>]
        ELSE [n |-> IF signed /\ s[1] = "-" THEN 0 - Decimal(ds) ELSE Decimal(ds),
              err |-> NilErr]

\* The :SpecID parameters of DELETE /specs/v2/:SpecID that are tried.
SpecIDParamsV2 ==
    {<<>>, <<"x">>, <<"1", "x">>, <<"1">>, <<"2">>, <<"+", "2">>, <<"-", "1">>, <<"1", "2">>}

\* The :SpecID parameters of DELETE /specs/:SpecID that are tried.
IDTexts == {JobIDText(n) : n \in 1..(MaxJobs + 1)}
SpecIDParams == IDTexts \cup {"not-an-id"}

\* models.NewIDFromString(s)
NewIDFromString(s) ==
    IF s \in IDTexts THEN [id |-> s, err |-> NilErr]
    ELSE [id |-> "", err |-> <<"invalid id">>]

\* jsc.App.ArchiveJob(id): soft delete; the job stays in the store, archived.
ArchiveJob(js, id, mode) ==
    IF ~mode.ok THEN [err |-> StoreErr(ErrStore, mode), jobs |-> js]
    ELSE IF [id |-> id, archived |-> FALSE] \notin js
    THEN [err |-> StoreErr(ErrorNotFound, mode), jobs |-> js]
    ELSE [err |-> NilErr,
          jobs |-> (js \ {[id |-> id, archived |-> FALSE]}) \cup {[id |-> id, archived |-> TRUE]}]

\* jsc.App.DeleteJobV2(ctx, id): hard delete.
DeleteJobV2(js, id, mode) ==
    IF ~mode.ok THEN [err |-> StoreErr(ErrStore, mode), jobs |-> js]
    ELSE IF id \notin js THEN [err |-> StoreErr(ErrorNotFound, mode), jobs |-> js]
    ELSE [err |-> NilErr, jobs |-> js \ {id}]

\* A variant of Destroy that compares the store's error itself with ErrorNotFound.
DestroyHandlerNoCause(param, js, mode) ==
    LET p == NewIDFromString(param) IN
    IF p.err # NilErr
    THEN [responses |-> <<StatusUnprocessableEntity>>, calls |-> <<>>, jobs |-> js]
    ELSE LET a == ArchiveJob(js, p.id, mode) IN
         IF a.err = ErrorNotFound
         THEN [responses |-> <<StatusNotFound>>, calls |-> <<a.err>>, jobs |-> a.jobs]
         ELSE IF a.err # NilErr
         THEN [responses |-> <<StatusInternalServerError>>, calls |-> <<a.err>>, jobs |-> a.jobs]
         ELSE [responses |-> <<StatusNoContent>>, calls |-> <<a.err>>, jobs |-> a.jobs]

\* Destroy(c): the responses written, what each store call returned, and the
\* store's jobs afterwards.
DestroyHandler(param, js, mode) ==
    LET p == NewIDFromString(param) IN
    IF p.err # NilErr
    THEN [responses |-> <<StatusUnprocessableEntity>>, calls |-> <<>>, jobs |-> js]
    ELSE LET a == ArchiveJob(js, p.id, mode) IN
         IF Cause(a.err) = ErrorNotFound
         THEN [responses |-> <<StatusNotFound>>, calls |-> <<a.err>>, jobs |-> a.jobs]
         ELSE IF a.err # NilErr
         THEN [responses |-> <<StatusInternalServerError>>, calls |-> <<a.err>>, jobs |-> a.jobs]
         ELSE [responses |-> <<StatusNoContent>>, calls |-> <<a.err>>, jobs |-> a.jobs]

\* DestroyV2(c). int32(jobID) is the identity on every id tried here (all are
\* far below 2^31).
DestroyV2Handler(param, js, mode) ==
    LET p == Atoi(param) IN
    IF p.err # NilErr
    THEN [responses |-> <<StatusUnprocessableEntity>>, calls |-> <<>>, jobs |-> js]
    ELSE LET a == DeleteJobV2(js, p.n, mode) IN
         IF Cause(a.err) = ErrorNotFound
         THEN [responses |-> <<StatusNotFound>>, calls |-> <<a.err>>, jobs |-> a.jobs]
         ELSE IF a.err # NilErr
         THEN [responses |-> <<StatusInternalServerError>>, calls |-> <<a.err>>, jobs |-> a.jobs]
         ELSE [responses |-> <<StatusNoContent>>, calls |-> <<a.err>>, jobs |-> a.jobs]

\* A controller over an empty store, under any configuration; nothing else in use.
WebInit ==
    /\ cfg \in [Dev : BOOLEAN, FeatureFluxMonitor : BOOLEAN, FeatureOffchainReporting : BOOLEAN]
    /\ jobs = {}
    /\ jobsV2 = {}
    /\ created = 0
    /\ createdV2 = 0
    /\ notified = <<>>
    /\ last = NoCall
    /\ task = [Type |-> TaskTypeBridge, Name |-> "coinbase", RequestData |-> NilMap]
    /\ decoded = task /\ bridges = {} /\ idCounter = 0
    /\ httpLog = <<>> /\ lookupLog = <<>>
    /\ fetchers = <<>> /\ phase = "new" /\ owner = NoNotifiee

Create ==
    /\ created + createdV2 < MaxJobs
    /\ \E req \in CreateRequests, notifyMode \in StoreFailures, addMode \in StoreFailures :
         LET r == CreateHandler(req, cfg, created, notifyMode, addMode) IN
         /\ jobs' = jobs \cup r.add
         /\ notified' = notified \o r.notify
         /\ created' = IF req.bind = "ok" THEN created + 1 ELSE created
         /\ last' = [op |-> "Create", req |-> req, responses |-> r.responses,
                     trace |-> r.trace, jobsBefore |-> jobs, jobsV2Before |-> jobsV2,
                     notifiedBefore |-> Len(notified)]
    /\ UNCHANGED <<cfg, jobsV2, createdV2>>
    /\ UNCHANGED <<bridgeOnly, decodeOnly>>

CreateV2 ==
    /\ created + createdV2 < MaxJobs
    /\ \E req \in CreateV2Requests, addMode \in StoreFailures :
         LET r == CreateV2Handler(req, cfg, createdV2, addMode) IN
         /\ jobsV2' = jobsV2 \cup r.add
         /\ createdV2' = createdV2 + Cardinality(r.add)
         /\ last' = [op |-> "CreateV2", req |-> req, responses |-> r.responses,
                     trace |-> r.trace, jobsBefore |-> jobs, jobsV2Before |-> jobsV2,
                     notifiedBefore |-> Len(notified)]
    /\ UNCHANGED <<cfg, jobs, created, notified>>
    /\ UNCHANGED <<bridgeOnly, decodeOnly>>

Destroy ==
    /\ \E param \in SpecIDParams, mode \in StoreModes :
         LET r == DestroyHandler(param, jobs, mode) IN
         /\ jobs' = r.jobs
         /\ last' = [op |-> "Destroy", param |-> param, responses |-> r.responses,
                     calls |-> r.calls, jobsBefore |-> jobs, jobsV2Before |-> jobsV2]
    /\ UNCHANGED <<cfg, jobsV2, created, createdV2, notified>>
    /\ UNCHANGED <<bridgeOnly, decodeOnly>>

DestroyV2 ==
    /\ \E param \in SpecIDParamsV2, mode \in StoreModes :
         LET r == DestroyV2Handler(param, jobsV2, mode) IN
         /\ jobsV2' = r.jobs
         /\ last' = [op |-> "DestroyV2", param |-> param, responses |-> r.responses,
                     calls |-> r.calls, jobsBefore |-> jobs, jobsV2Before |-> jobsV2]
    /\ UNCHANGED <<cfg, jobs, created, createdV2, notified>>
    /\ UNCHANGED <<bridgeOnly, decodeOnly>>

WebNext == Create \/ CreateV2 \/ Destroy \/ DestroyV2

\* ------------------------------------------------------------ specifications
\* One BridgeTask, run repeatedly.
SpecBridge == BridgeInit /\ [][BridgeNext]_vars

\* One Fetchers collection: decoded, then handed its owner's sink.
SpecDecode == DecodeInit /\ [][DecodeNext]_vars

\* The controller serving create and delete requests.
SpecWeb == WebInit /\ [][WebNext]_vars

\* --------------------------------------------------- controller properties
IndexOf(seq, x) == IF \E i \in 1..Len(seq) : seq[i] = x
                   THEN CHOOSE i \in 1..Len(seq) : seq[i] = x /\ \A j \in 1..(i - 1) : seq[j] # x
                   ELSE 0
StoreUntouched == jobs = last.jobsBefore /\ jobsV2 = last.jobsV2Before

\* C6: on both creation paths a well-formed request for a gated job kind, made
\* with the kind's feature flag disabled and dev mode off, is answered 501 and
\* never 400, whether or not the spec would pass validation, and adds no job;
\* with the flag or dev mode on, the same request passes the gate.
InvC6 ==
    /\ (/\ last.op = "Create" /\ last.req.bind = "ok"
        /\ \E i \in 1..Len(last.req.initiators) : last.req.initiators[i] = InitiatorFluxMonitor) =>
          IF ~cfg.Dev /\ ~cfg.FeatureFluxMonitor
          THEN last.responses = <<StatusNotImplemented>> /\ StoreUntouched
          ELSE /\ StatusNotImplemented \notin {last.responses[i] : i \in 1..Len(last.responses)}
               /\ IndexOf(last.trace, "ValidateJob") > 0
    /\ (last.op = "CreateV2" /\ last.req.read = "ok" /\ last.req.toml = "ok") =>
          IF ~cfg.Dev /\ ~cfg.FeatureOffchainReporting
          THEN last.responses = <<StatusNotImplemented>> /\ StoreUntouched
          ELSE /\ StatusNotImplemented \notin {last.responses[i] : i \in 1..Len(last.responses)}
               /\ IndexOf(last.trace, "AddJobV2") > 0
WitC6 ==
    /\ last.op = "Create" /\ last.req.bind = "ok" /\ ~last.req.valid
    /\ last.responses = <<StatusNotImplemented>>
    /\ jobs # {}

\* C7: Create and CreateV2 call the store's add operation only after the spec
\* was validated successfully; a request that fails binding or decoding, the
\* feature gate or validation adds no record and notifies no external initiator.
InvC7 ==
    last.op \in {"Create", "CreateV2"} =>
        /\ \A i \in 1..Len(last.trace) :
              last.trace[i] \in {"AddJob", "AddJobV2"} =>
                  \E j \in 1..(i - 1) : last.trace[j] = "ValidateJob"
        /\ last.responses \in {<<StatusBadRequest>>, <<StatusNotImplemented>>} =>
              StoreUntouched /\ Len(notified) = last.notifiedBefore

\* C8: Destroy and DestroyV2 write exactly one response: 422 for an id that
\* does not parse, without calling the store; otherwise 404 when the store's
\* error is (or wraps) not-found, 500 for any other store error, 204 when the
\* store deleted the job.
InvC8 ==
    last.op \in {"Destroy", "DestroyV2"} =>
        /\ Len(last.responses) = 1
        /\ LET parseErr == IF last.op = "Destroy" THEN NewIDFromString(last.param).err
                           ELSE Atoi(last.param).err
           IN  IF parseErr # NilErr
               THEN /\ last.responses = <<StatusUnprocessableEntity>>
                    /\ last.calls = <<>>
                    /\ StoreUntouched
               ELSE /\ Len(last.calls) = 1
                    /\ Cause(last.calls[1]) = ErrorNotFound =>
                          (last.responses = <<StatusNotFound>> /\ StoreUntouched)
                    /\ (last.calls[1] # NilErr /\ Cause(last.calls[1]) # ErrorNotFound) =>
                          (last.responses = <<StatusInternalServerError>> /\ StoreUntouched)
                    /\ last.calls[1] = NilErr =>
                          /\ last.responses = <<StatusNoContent>>
                          /\ last.op = "Destroy" =>
                                [id |-> last.param, archived |-> TRUE] \in jobs
                          /\ last.op = "DestroyV2" =>
                                (Atoi(last.param).n \in last.jobsV2Before \ jobsV2)
WitC8 ==
    /\ last.op = "Destroy" /\ last.responses = <<StatusNotFound>>
    /\ Len(last.calls) = 1 /\ Len(last.calls[1]) > 1
    /\ \E j \in jobs : j.archived
====
